---- MODULE Spec2Model ----
(***************************************************************************)
(* Model of 0x00-personal_data: filtered_logger.py (RedactingFormatter,    *)
(* filter_datum, get_logger, main) and encrypt_password.py (hash_password, *)
(* is_valid).                                                              *)
(*                                                                         *)
(* A Python str is a sequence of one-character strings, so that regular    *)
(* expression matching, joining and formatting are computed character by   *)
(* character.                                                              *)
(***************************************************************************)
EXTENDS Integers, Sequences, FiniteSets, TLC

VARIABLES
    \* ---- a call of RedactingFormatter.filter_datum (SpecFilter)
    fields,        \* argument: the list of field names
    redaction,     \* argument: the redaction token
    message,       \* argument: the message
    separator,     \* argument: the separator
    pairs,         \* the key/value pairs the message was joined from (<< >> for a raw message)
    wellformed,    \* TRUE when message is Join(pairs, separator)
    result,        \* the value returned
    pc,            \* "call" before the call, "done" after it
    \* ---- a RedactingFormatter and the threads that call its format (SpecFormatter)
    formatter,     \* the instance: None, or its attributes fields and _fmt
    given,         \* the list passed to RedactingFormatter(...)
    outcome,       \* of the construction: "none" before it, "ok", or the exception raised
    tpc,           \* per thread: "idle", "rendered" (after super().format), "returned"
    trecord,       \* per thread: the LogRecord being formatted
    tmessage,      \* per thread: the local variable message
    tline,         \* per thread: the value format returned
    ncalls,        \* format calls started so far
    \* ---- the logging module's "user_data" logger, sys.stderr and main (SpecLogger)
    handlers,      \* logger.handlers
    level,         \* logger.level
    propagate,     \* logger.propagate
    stream,        \* the lines written to sys.stderr
    logged,        \* the LogRecords made by logger.info so far
    mpc,           \* main: "idle", or "loop" while it iterates the cursor
    cursor,        \* main: the rows the cursor has yet to yield
    getLoggerCalls, \* get_logger() calls so far
    \* ---- encrypt_password (SpecHash)
    issued,        \* what hash_password returned so far, each with its password
    check          \* the last is_valid call: its arguments and how it ended

filterVars == <<fields, redaction, message, separator, pairs, wellformed, result, pc>>
formatterVars == <<formatter, given, outcome, tpc, trecord, tmessage, tline, ncalls>>
loggerVars == <<handlers, level, propagate, stream, logged, mpc, cursor, getLoggerCalls>>
hashVars == <<issued, check>>
vars == <<filterVars, formatterVars, loggerVars, hashVars>>

(***************************************************************************)
(* Bounds of the model.                                                    *)
(***************************************************************************)
MaxLen == 4        \* longest raw message
MaxPairs == 2      \* most key=value pairs in a well-formed message
MaxFields == 2     \* longest list of field names
MaxCalls == 3      \* most format calls on one formatter
MaxGetLogger == 2  \* most get_logger() calls in the process
MaxRows == 2       \* most rows the users table holds

(***************************************************************************)
(* Strings.                                                                *)
(***************************************************************************)
SeqsUpTo(S, n) == UNION {[1..k -> S] : k \in 0..n}

Min(S) == CHOOSE x \in S : \A y \in S : x <= y

StartsAt(s, i, pat) ==
    /\ i + Len(pat) - 1 <= Len(s)
    /\ SubSeq(s, i, i + Len(pat) - 1) = pat

Contains(s, sub) == \E i \in 1..(Len(s) + 1) : StartsAt(s, i, sub)

RECURSIVE Join(_, _)
\* sep.join(parts)
Join(parts, sep) ==
    IF parts = << >> THEN << >>
    ELSE IF Len(parts) = 1 THEN parts[1]
    ELSE parts[1] \o sep \o Join(Tail(parts), sep)

(***************************************************************************)
(* Class attributes of RedactingFormatter.                                 *)
(***************************************************************************)
REDACTION == <<"*", "*", "*">>
SEPARATOR == <<";", " ">>
\* "[HOLBERTON] %(name)s %(levelname)s %(asctime)s: %(message)s": the literal
\* characters one by one, each %(...)s directive as one element
FORMAT ==
    <<"[", "H", "O", "L", "B", "E", "R", "T", "O", "N", "]", " ">> \o
    <<"%(name)s", " ", "%(levelname)s", " ", "%(asctime)s", ":", " ", "%(message)s">>

(***************************************************************************)
(* re.sub(fr"{field}=[^;]*", f"{field}={redaction}", message)              *)
(***************************************************************************)
\* the literal part of the pattern: the field name followed by "="
Pattern(field) == field \o <<"=">>

\* re's search for the literal part: the leftmost index >= pos where it
\* starts, 0 when there is none
Search(field, s, pos) ==
    LET hits == {i \in pos..Len(s) : StartsAt(s, i, Pattern(field))}
    IN  IF hits = {} THEN 0 ELSE Min(hits)

\* ValueEnd with a fault: the value class is missing from the pattern
ValueEndNoClass(s, j) == j

\* [^;]* matched greedily from index j: the index after the match, which is
\* that of the next ";" or the end of the string
ValueEnd(s, j) ==
    LET stops == {k \in j..Len(s) : s[k] = ";"}
    IN  IF stops = {} THEN Len(s) + 1 ELSE Min(stops)

RECURSIVE re_sub(_, _, _, _)
\* the substitution of every non-overlapping match, left to right, in s from
\* index pos on
re_sub(field, repl, s, pos) ==
    LET i == Search(field, s, pos)
    IN  IF i = 0 THEN SubSeq(s, pos, Len(s))
        ELSE SubSeq(s, pos, i - 1) \o Pattern(field) \o repl
                 \o re_sub(field, repl, s, ValueEnd(s, i + Len(Pattern(field))))

RECURSIVE filter_loop(_, _, _)
\* filter_loop with a fault: the return is inside the loop, so that only the
\* first field is substituted
filter_loop_first_only(flds, repl, msg) ==
    IF flds = << >> THEN msg ELSE re_sub(Head(flds), repl, msg, 1)

\* for field in fields: message = re.sub(...)
filter_loop(flds, repl, msg) ==
    IF flds = << >> THEN msg
    ELSE filter_loop(Tail(flds), repl, re_sub(Head(flds), repl, msg, 1))

\* RedactingFormatter.filter_datum: the separator argument is not read
filter_datum(flds, repl, msg, sep) == filter_loop(flds, repl, msg)

(***************************************************************************)
(* Inputs of filter_datum.                                                 *)
(***************************************************************************)
\* field names are made of letters: the name is spliced into the pattern
\* unescaped, and a letter matches only itself
FieldNames == {<<"a">>, <<"b">>, <<"b", "a">>}
FieldLists == SeqsUpTo(FieldNames, MaxFields)

RedactionTokens == {REDACTION, <<";">>, <<"b", "=">>, <<";", " ", "b", "=">>}

Separators == {SEPARATOR, <<";">>, <<"|">>}

Keys == {<<"a">>, <<"b", "a">>, <<"a", "b">>}
Values == {<<"b">>, <<"b", ";", "b">>}
Pairs == [k : Keys, v : Values]

RawAlphabet == {"a", "b", "=", ";"}
RawMessages == SeqsUpTo(RawAlphabet, MaxLen)

\* f"{key}={value}" for each pair
Rendered(ps) == [i \in 1..Len(ps) |-> ps[i].k \o <<"=">> \o ps[i].v]

\* Python's None, as a record so that it compares with objects
None == [none |-> TRUE]
Threads == {"t1", "t2"}

\* the other components at rest
FilterIdle ==
    /\ fields = << >> /\ redaction = << >> /\ message = << >> /\ separator = << >>
    /\ pairs = << >> /\ wellformed = FALSE /\ result = << >> /\ pc = "off"

FormatterIdle ==
    /\ formatter = None /\ given = << >> /\ outcome = "off"
    /\ tpc = [t \in Threads |-> "off"]
    /\ trecord = [t \in Threads |-> None]
    /\ tmessage = [t \in Threads |-> << >>]
    /\ tline = [t \in Threads |-> << >>]
    /\ ncalls = 0

LoggerIdle ==
    /\ handlers = << >> /\ level = "off" /\ propagate = TRUE /\ stream = << >>
    /\ logged = << >> /\ mpc = "off" /\ cursor = << >> /\ getLoggerCalls = 0

HashIdle == issued = {} /\ check = None

InitFilter ==
    /\ FormatterIdle
    /\ LoggerIdle
    /\ HashIdle
    /\ pc = "call"
    /\ result = << >>
    /\ fields \in FieldLists
    /\ \/ /\ wellformed = TRUE
          /\ pairs \in SeqsUpTo(Pairs, MaxPairs)
          /\ separator \in Separators
          /\ \A i \in 1..Len(pairs) : ~Contains(pairs[i].v, separator)
          /\ message = Join(Rendered(pairs), separator)
          /\ redaction = REDACTION
       \/ /\ wellformed = FALSE
          /\ pairs = << >>
          /\ separator = SEPARATOR
          /\ message \in RawMessages
          /\ redaction \in RedactionTokens

\* result = RedactingFormatter.filter_datum(fields, redaction, message, separator)
Call_filter_datum ==
    /\ pc = "call"
    /\ result' = filter_datum(fields, redaction, message, separator)
    /\ pc' = "done"
    /\ UNCHANGED <<fields, redaction, message, separator, pairs, wellformed>>
    /\ UNCHANGED <<formatterVars, loggerVars, hashVars>>

NextFilter == Call_filter_datum

SpecFilter == InitFilter /\ [][NextFilter]_vars

(***************************************************************************)
(* logging.Formatter, as far as RedactingFormatter uses it.                *)
(***************************************************************************)
Digits == <<"0", "1", "2", "3", "4", "5", "6", "7", "8", "9">>

\* Formatter.formatTime with the default date format, for a record created
\* `created` seconds (0..9) after the epoch, UTC:
\* "%Y-%m-%d %H:%M:%S" followed by ",%03d" of the milliseconds
formatTime(created) ==
    <<"1", "9", "7", "0", "-", "0", "1", "-", "0", "1", " ", "0", "0", ":", "0", "0", ":", "0">> \o <<Digits[created + 1]>> \o <<",", "0", "0", "0">>

\* what a directive of the format string stands for in a record
Directive(token, record) ==
    CASE token = "%(name)s" -> record.name
      [] token = "%(levelname)s" -> record.levelname
      [] token = "%(asctime)s" -> formatTime(record.created)
      [] token = "%(message)s" -> record.msg
      [] OTHER -> <<token>>

RECURSIVE PercentStyle_format(_, _)
\* fmt % record.__dict__
PercentStyle_format(fmt, record) ==
    IF fmt = << >> THEN << >>
    ELSE Directive(Head(fmt), record) \o PercentStyle_format(Tail(fmt), record)

\* logging.Formatter.format(self, record), for a record without exception or
\* stack information
Formatter_format(self, record) == PercentStyle_format(self._fmt, record)

(***************************************************************************)
(* RedactingFormatter.                                                     *)
(***************************************************************************)
\* RedactingFormatter_init as a validating constructor would be: an empty or a
\* repeated name raises a configuration error
RedactingFormatter_init_validating(flds) ==
    IF \/ \E i \in 1..Len(flds) : flds[i] = << >>
       \/ \E i, j \in 1..Len(flds) : i # j /\ flds[i] = flds[j]
    THEN [outcome |-> "ConfigurationError", self |-> None]
    ELSE [outcome |-> "ok", self |-> [fields |-> flds, _fmt |-> FORMAT]]

\* RedactingFormatter.__init__: super().__init__(self.FORMAT) keeps the format
\* string, then self.fields = fields; nothing is checked and nothing raised
RedactingFormatter_init(flds) ==
    [outcome |-> "ok", self |-> [fields |-> flds, _fmt |-> FORMAT]]

\* RedactingFormatter_filter with a fault: the redaction token and the
\* separator are passed in each other's place
RedactingFormatter_filter_swapped(self, msg) ==
    filter_datum(self.fields, SEPARATOR, msg, REDACTION)

\* the return statement of RedactingFormatter.format
RedactingFormatter_filter(self, msg) ==
    filter_datum(self.fields, REDACTION, msg, SEPARATOR)

\* RedactingFormatter.format as one call
RedactingFormatter_format(self, record) ==
    RedactingFormatter_filter(self, Formatter_format(self, record))

(***************************************************************************)
(* Inputs of the formatter.                                                *)
(***************************************************************************)
\* lists passed to the constructor: also with an empty name and with a name twice
ConstructorLists ==
    {<< >>, <<<<"a">>>>, <<<<"a">>, <<"b">>>>, <<<< >>>>, <<<<"a">>, <<"a">>>>}

LoggerNames == {<<"u">>}
LevelNames == {<<"I", "N", "F", "O">>, <<"E", "R", "R", "O", "R">>}
RecordMessages == {<<"a", "=", "b", ";", " ", "b", "a", "=", "b">>, <<"b", "=", "a", ";", "a", "=", "b">>, <<"h", "e", "l", "l", "o">>}
LogRecords == [name : LoggerNames, levelname : LevelNames, created : {0, 1}, msg : RecordMessages]

InitFormatter ==
    /\ FilterIdle
    /\ LoggerIdle
    /\ HashIdle
    /\ formatter = None
    /\ given = << >>
    /\ outcome = "none"
    /\ tpc = [t \in Threads |-> "idle"]
    /\ trecord = [t \in Threads |-> None]
    /\ tmessage = [t \in Threads |-> << >>]
    /\ tline = [t \in Threads |-> << >>]
    /\ ncalls = 0

\* RedactingFormatter(flds)
Construct(flds) ==
    /\ outcome = "none"
    /\ given' = flds
    /\ outcome' = RedactingFormatter_init(flds).outcome
    /\ formatter' = RedactingFormatter_init(flds).self
    /\ UNCHANGED <<tpc, trecord, tmessage, tline, ncalls>>
    /\ UNCHANGED <<filterVars, loggerVars, hashVars>>

\* thread t enters format(record): message = super().format(record)
format_super(t, record) ==
    /\ formatter # None
    /\ tpc[t] = "idle"
    /\ ncalls < MaxCalls
    /\ ncalls' = ncalls + 1
    /\ trecord' = [trecord EXCEPT ![t] = record]
    /\ tmessage' = [tmessage EXCEPT ![t] = Formatter_format(formatter, record)]
    /\ tpc' = [tpc EXCEPT ![t] = "rendered"]
    /\ UNCHANGED <<formatter, given, outcome, tline>>
    /\ UNCHANGED <<filterVars, loggerVars, hashVars>>

\* thread t returns self.filter_datum(self.fields, self.REDACTION, message, self.SEPARATOR)
format_return(t) ==
    /\ tpc[t] = "rendered"
    /\ tline' = [tline EXCEPT ![t] = RedactingFormatter_filter(formatter, tmessage[t])]
    /\ tpc' = [tpc EXCEPT ![t] = "returned"]
    /\ UNCHANGED <<formatter, given, outcome, trecord, tmessage, ncalls>>
    /\ UNCHANGED <<filterVars, loggerVars, hashVars>>

\* the caller of thread t has used the line; the thread may call again
format_done(t) ==
    /\ tpc[t] = "returned"
    /\ tpc' = [tpc EXCEPT ![t] = "idle"]
    /\ trecord' = [trecord EXCEPT ![t] = None]
    /\ tmessage' = [tmessage EXCEPT ![t] = << >>]
    /\ tline' = [tline EXCEPT ![t] = << >>]
    /\ UNCHANGED <<formatter, given, outcome, ncalls>>
    /\ UNCHANGED <<filterVars, loggerVars, hashVars>>

NextFormatter ==
    \/ \E flds \in ConstructorLists : Construct(flds)
    \/ \E t \in Threads : \E record \in LogRecords : format_super(t, record)
    \/ \E t \in Threads : format_return(t)
    \/ \E t \in Threads : format_done(t)

SpecFormatter == InitFormatter /\ [][NextFormatter]_vars

(***************************************************************************)
(* get_logger and main: the process-wide "user_data" logger.               *)
(***************************************************************************)
PII_FIELDS == <<<<"n", "a", "m", "e">>, <<"e", "m", "a", "i", "l">>, <<"p", "h", "o", "n", "e">>, <<"s", "s", "n">>, <<"p", "a", "s", "s", "w", "o", "r", "d">>>>

\* the handler get_logger makes: a new StreamHandler (to sys.stderr) whose
\* formatter is RedactingFormatter(PII_FIELDS); id tells the objects apart
NewHandler(id) == [id |-> id, formatter |-> RedactingFormatter_init(PII_FIELDS).self]

\* Logger.addHandler: appended unless this very object is already there
addHandler(hs, h) ==
    IF \E i \in 1..Len(hs) : hs[i] = h THEN hs ELSE Append(hs, h)

\* Logger.info -> callHandlers: every handler of the logger formats the
\* record with its own formatter and writes the line to the stream
callHandlers(hs, record) ==
    [i \in 1..Len(hs) |-> RedactingFormatter_format(hs[i].formatter, record)]

\* the columns of the users table and the values a row may hold
Columns == <<<<"n", "a", "m", "e">>, <<"i", "p">>>>
ColumnValues == {<<"x">>, <<"y">>}
Rows == [1..Len(Columns) -> ColumnValues]

\* "; ".join([f"{col}={val}" for col, val in zip(columns, row)])
user_data(columns, row) ==
    Join([i \in 1..Len(columns) |-> columns[i] \o <<"=">> \o row[i]], <<";", " ">>)

\* the LogRecord logger.info(msg) makes at clock reading created
InfoRecord(msg, created) ==
    [name |-> <<"u", "s", "e", "r", "_", "d", "a", "t", "a">>, levelname |-> <<"I", "N", "F", "O">>, created |-> created, msg |-> msg]

InitLogger ==
    /\ FilterIdle
    /\ FormatterIdle
    /\ HashIdle
    /\ handlers = << >>
    /\ level = "NOTSET"
    /\ propagate = TRUE
    /\ stream = << >>
    /\ logged = << >>
    /\ mpc = "idle"
    /\ cursor = << >>
    /\ getLoggerCalls = 0

\* the body of get_logger()
get_logger ==
    /\ getLoggerCalls < MaxGetLogger
    /\ getLoggerCalls' = getLoggerCalls + 1
    /\ level' = "INFO"
    /\ propagate' = FALSE
    /\ handlers' = addHandler(handlers, NewHandler(getLoggerCalls + 1))

\* some caller runs get_logger()
Call_get_logger ==
    /\ get_logger
    /\ UNCHANGED <<stream, logged, mpc, cursor>>
    /\ UNCHANGED <<filterVars, formatterVars, hashVars>>

\* main(): logger = get_logger(); db = get_db(); cursor.execute(query)
main_start ==
    /\ mpc = "idle"
    /\ get_logger
    /\ cursor' \in SeqsUpTo(Rows, MaxRows)
    /\ mpc' = "loop"
    /\ UNCHANGED <<stream, logged>>
    /\ UNCHANGED <<filterVars, formatterVars, hashVars>>

\* main(): one turn of "for row in cursor": logger.info(user_data)
main_row ==
    /\ mpc = "loop"
    /\ cursor # << >>
    /\ \E created \in {0, 1} :
          LET record == InfoRecord(user_data(Columns, Head(cursor)), created)
          IN  /\ logged' = Append(logged, record)
              /\ stream' = stream \o callHandlers(handlers, record)
    /\ cursor' = Tail(cursor)
    /\ UNCHANGED <<handlers, level, propagate, mpc, getLoggerCalls>>
    /\ UNCHANGED <<filterVars, formatterVars, hashVars>>

\* main(): the cursor is exhausted: cursor.close(); db.close()
main_close ==
    /\ mpc = "loop"
    /\ cursor = << >>
    /\ mpc' = "idle"
    /\ UNCHANGED <<handlers, level, propagate, stream, logged, cursor, getLoggerCalls>>
    /\ UNCHANGED <<filterVars, formatterVars, hashVars>>

NextLogger ==
    \/ Call_get_logger
    \/ main_start
    \/ main_row
    \/ main_close

SpecLogger == InitLogger /\ [][NextLogger]_vars

(***************************************************************************)
(* encrypt_password: hash_password and is_valid over bcrypt.               *)
(***************************************************************************)
Passwords == {<<"p">>, <<"q">>}
Salts == {"s1", "s2", "s3"}

\* str.encode(): the UTF-8 bytes of the characters
ByteOf(c) == CASE c = "p" -> 112 [] c = "q" -> 113
encode(str) == [i \in 1..Len(str) |-> ByteOf(str[i])]

\* bcrypt.hashpw(password, salt): the digest carries the salt and the key
\* derived from salt and password (a derivation without collisions)
hashpw(password, salt) == [type |-> "bytes", salt |-> salt, key |-> <<salt, password>>]

\* digests bcrypt can parse
ValidDigests == {hashpw(encode(p), s) : p \in Passwords, s \in Salts}

\* other values a caller may pass as hashed_password: bytes that are no
\* bcrypt digest, no bytes, a str
garbage == [type |-> "bytes", raw |-> "not-a-digest"]
empty == [type |-> "bytes", raw |-> ""]
text == [type |-> "str", raw |-> "$2b$12$..."]
Malformed == {garbage, empty, text}

\* bcrypt.checkpw(password, hashed_password): hashes the password with the
\* salt read from hashed_password and compares; a hashed_password that is not
\* bytes raises TypeError, one without a valid salt raises ValueError
checkpw(password, hashed_password) ==
    IF hashed_password.type # "bytes" THEN [raised |-> "TypeError", value |-> FALSE]
    ELSE IF hashed_password \notin ValidDigests
         THEN [raised |-> "ValueError", value |-> FALSE]
         ELSE [raised |-> "",
               value |-> hashpw(password, hashed_password.salt) = hashed_password]

InitHash ==
    /\ FilterIdle
    /\ FormatterIdle
    /\ LoggerIdle
    /\ issued = {}
    /\ check = None

\* hash_password(password): salt = bcrypt.gensalt(); return bcrypt.hashpw(...)
hash_password(password) ==
    /\ \E salt \in Salts :
          issued' = issued \cup {[digest |-> hashpw(encode(password), salt),
                                  password |-> password]}
    /\ UNCHANGED check
    /\ UNCHANGED <<filterVars, formatterVars, loggerVars>>

\* is_valid(hashed_password, password): return bcrypt.checkpw(...), nothing caught
is_valid(hashed_password, password) ==
    /\ check' = [hashed_password |-> hashed_password, password |-> password,
                 ended |-> checkpw(encode(password), hashed_password)]
    /\ UNCHANGED issued
    /\ UNCHANGED <<filterVars, formatterVars, loggerVars>>

NextHash ==
    \/ \E password \in Passwords : hash_password(password)
    \/ \E password \in Passwords :
          \E hashed_password \in {e.digest : e \in issued} \cup Malformed :
             is_valid(hashed_password, password)

SpecHash == InitHash /\ [][NextHash]_vars

(***************************************************************************)
(* What the claims about filter_datum speak of.                            *)
(***************************************************************************)
FieldSet(flds) == {flds[i] : i \in 1..Len(flds)}

KeySet(ps) == {ps[i].k : i \in 1..Len(ps)}

NoSemicolon(s) == ~Contains(s, <<";">>)

NoEquals(s) == ~Contains(s, <<"=">>)

\* key contains name, and is longer
ProperlyContains(key, name) == key # name /\ Contains(key, name)

\* each pair whose key is in F rendered as key=repl, every other pair as it was
RedactedPairs(ps, F, repl) ==
    [i \in 1..Len(ps) |->
        ps[i].k \o <<"=">> \o (IF ps[i].k \in F THEN repl ELSE ps[i].v)]

RECURSIVE Split(_, _)
\* s.split(sep)
Split(s, sep) ==
    LET hits == {i \in 1..Len(s) : StartsAt(s, i, sep)}
    IN  IF hits = {} THEN <<s>>
        ELSE <<SubSeq(s, 1, Min(hits) - 1)>>
                 \o Split(SubSeq(s, Min(hits) + Len(sep), Len(s)), sep)

\* name= stands at the start of s or right after a separator
KeyOccurs(name, s, sep) ==
    \E i \in 1..Len(s) :
        /\ StartsAt(s, i, Pattern(name))
        /\ \/ i = 1
           \/ i > Len(sep) /\ StartsAt(s, i - Len(sep), sep)

\* the orderings of a list
Orderings(flds) ==
    {[i \in 1..Len(flds) |-> flds[p[i]]] : p \in Permutations(1..Len(flds))}

\* C1: for a message of well-formed key=value pairs joined by the separator
\* and fields that are keys of the message, filter_datum with "***" replaces
\* exactly the values of those keys and leaves everything else as it was.
C1_ExactlyTheFields ==
    (pc = "done" /\ wellformed /\ redaction = REDACTION
        /\ FieldSet(fields) \subseteq KeySet(pairs))
    => result = Join(RedactedPairs(pairs, FieldSet(fields), redaction), separator)

\* C2: every field=<value> is replaced by field=<redaction>, the value running
\* exactly up to the next occurrence of the separator argument or the end of
\* the string, whatever the separator is and also when the value holds a ";".
\* (Stated for messages none of whose keys merely contains a field name.)
C2_ValueRunsToSeparator ==
    (pc = "done" /\ wellformed
        /\ \A k \in KeySet(pairs) : \A f \in FieldSet(fields) : ~ProperlyContains(k, f))
    => result = Join(RedactedPairs(pairs, FieldSet(fields), redaction), separator)

\* C3: a pair whose key merely contains a field name (as a prefix or as a
\* suffix) is left untouched.  (Stated for the default separator and values
\* without ";", where the pairs of the result are those of the message.)
C3_FullKeyOnly ==
    (pc = "done" /\ wellformed /\ separator = SEPARATOR
        /\ \A i \in 1..Len(pairs) : NoSemicolon(pairs[i].v))
    => \A i \in 1..Len(pairs) :
          (/\ pairs[i].k \notin FieldSet(fields)
           /\ \E f \in FieldSet(fields) : ProperlyContains(pairs[i].k, f))
          => /\ i <= Len(Split(result, separator))
             /\ Split(result, separator)[i] = Rendered(pairs)[i]

C7_NoKeyNoChange ==
    (pc = "done" /\ \A i \in 1..Len(fields) : ~KeyOccurs(fields[i], message, separator))
    => result = message

\* the line the fixed template gives for a record:
\* [HOLBERTON] <logger_name> <level> <timestamp>: <message>
TemplateLine(record) ==
    <<"[", "H", "O", "L", "B", "E", "R", "T", "O", "N", "]", " ">> \o record.name \o <<" ">> \o record.levelname
        \o <<" ">> \o formatTime(record.created) \o <<":", " ">> \o record.msg

C9_FormatIsAFunctionOfTheRecord ==
    /\ formatter # None => formatter = [fields |-> given, _fmt |-> FORMAT]
    /\ \A t \in Threads :
          tpc[t] = "returned"
          => tline[t] = filter_datum(given, <<"*", "*", "*">>,
                                     TemplateLine(trecord[t]), <<";", " ">>)

\* two calls in flight at once, after an earlier call, on different records,
\* one of them redacted
C9_Witness ==
    /\ ncalls = MaxCalls
    /\ \A t \in Threads : tpc[t] = "returned"
    /\ trecord["t1"] # trecord["t2"]
    /\ tline["t1"] # tmessage["t1"]
    /\ tline["t1"] # tline["t2"]

\* C8: is_valid never raises: it returns False for a malformed or a
\* mismatching digest, and True only for a digest hash_password made from that
\* same password.
C8_IsValidNeverRaises ==
    check # None
    => /\ check.ended.raised = ""
       /\ check.ended.value
            <=> [digest |-> check.hashed_password, password |-> check.password] \in issued

\* C10: however often get_logger() and main() ran, the user_data logger has
\* exactly one handler, and the stream holds exactly one redacted line per
\* logged record, in the order of the records.
C10_OneHandlerOneLinePerRecord ==
    /\ getLoggerCalls > 0 => Len(handlers) = 1
    /\ stream = [i \in 1..Len(logged) |->
                    filter_datum(PII_FIELDS, REDACTION, TemplateLine(logged[i]), SEPARATOR)]

====
